---------------------------- MODULE Spec2Model ----------------------------
(***************************************************************************)
(* Model of the slogpretty handler (type SlogPretty of handler.go): the    *)
(* bound chain of groups and attribute batches, its derivation with        *)
(* WithAttrs / WithGroup, the rendering of a record by Handle, and the     *)
(* mutex-guarded write to the output sink.                                 *)
(*                                                                         *)
(* Text is modelled byte for byte: a string is a sequence of one-character *)
(* strings, and the byte 0x1b that opens an ANSI escape is the token ESC.  *)
(***************************************************************************)
EXTENDS Integers, Sequences, FiniteSets, TLC

VARIABLES
    opts,      \* h.opts: the Options copied into the root by New and into every derived handler
    goas,      \* goas[h]: the field h.goas of handler object h (a slice of groupOrAttrs)
    mu,        \* mu[h]: the mutex the field h.mu points to
    origin,    \* origin[h]: how handler object h was made (parent object and bound element)
    locked,    \* locked[m]: the thread holding mutex m, 0 when it is free
    inWrite,   \* the threads currently inside h.out.Write
    pc,        \* pc[t]: where thread t is inside Handle
    tv,        \* tv[t]: the locals of thread t's Handle call
    calls,     \* the number of Handle calls the threads have started
    last,      \* the last completed operation, with its arguments and results
    memo       \* one remembered earlier Handle call (handler, record, bytes written)

vars == <<opts, goas, mu, origin, locked, inWrite, pc, tv, calls, last, memo>>

----------------------------------------------------------------------------
(* Bounds of the model.                                                    *)

MaxHandlers  == 3   \* handler objects, the root and the derived ones, when one goroutine calls
ConcHandlers == 2   \* handler objects when several goroutines call
NThreads     == 2   \* goroutines calling Handle concurrently
MaxCalls     == 2   \* Handle calls the goroutines start in one behaviour

Threads == 1..NThreads

----------------------------------------------------------------------------
(* Text helpers.                                                           *)

ESC == "ESC"

RECURSIVE Repeat(_, _)
Repeat(s, n) == IF n <= 0 THEN <<>> ELSE s \o Repeat(s, n - 1)

Digit(d) == <<"0", "1", "2", "3", "4", "5", "6", "7", "8", "9">>[d + 1]

RECURSIVE Itoa(_)
Itoa(n) == IF n < 10 THEN <<Digit(n)>> ELSE Itoa(n \div 10) \o <<Digit(n % 10)>>

\* fmt.Sprintf("%q", s): s in double quotes, with " and \ escaped by a backslash
RECURSIVE QuoteBody(_)
QuoteBody(s) ==
    IF s = <<>> THEN <<>>
    ELSE (IF Head(s) \in {"\"", "\\"} THEN <<"\\", Head(s)>> ELSE <<Head(s)>>)
         \o QuoteBody(Tail(s))

\* a %q that is a %s: the text as it is
Quote_None(s) == s

Quote(s) == <<"\"">> \o QuoteBody(s) \o <<"\"">>

\* fmt's verb %-7s: s padded with spaces on the right to a width of 7
PadWidth == 7

PadRight(s) == s \o Repeat(<<" ">>, PadWidth - Len(s))

----------------------------------------------------------------------------
(* Colours.                                                                *)

magenta      == 35
cyan         == 36
lightGray    == 37
darkGray     == 90
lightRed     == 91
lightYellow  == 93
lightBlue    == 94
lightMagenta == 95
lightCyan    == 96
white        == 97

reset == <<ESC, "[", "0", "m">>

colorize(colorCode, v) == <<ESC, "[">> \o Itoa(colorCode) \o <<"m">> \o v \o reset

----------------------------------------------------------------------------
(* Levels, times, attributes and records of log/slog, as the handler reads *)
(* them.                                                                   *)

LevelDebug == -4
LevelInfo  == 0
LevelWarn  == 4
LevelError == 8

\* the levels records carry: the four named ones and one in between
Levels == {LevelDebug, LevelInfo, 2, LevelWarn, LevelError}

\* slog.Level.String(): the name of the nearest named level below, and the offset from it
LevelString(level) ==
    LET str(base, val) == IF val = 0 THEN base ELSE base \o <<"+">> \o Itoa(val)
    IN  IF level < LevelInfo THEN str(<<"D", "E", "B", "U", "G">>, level - LevelDebug)
        ELSE IF level < LevelWarn THEN str(<<"I", "N", "F", "O">>, level - LevelInfo)
        ELSE IF level < LevelError THEN str(<<"W", "A", "R", "N">>, level - LevelWarn)
        ELSE str(<<"E", "R", "R", "O", "R">>, level - LevelError)

\* time.Time.Format(h.opts.TimeFormat) of the one non-zero instant of the model
FormatTime(t) == <<"0", "9", ":", "0", "0">>

\* An attribute: Key and a value of kind Kind; S, N and G hold the payload of a
\* String, of an Int64 / Bool / Time, and of a Group.
Attr(key, kind, s, n, g) == [Key |-> key, Kind |-> kind, S |-> s, N |-> n, G |-> g]

ZeroAttr == Attr(<<>>, "Any", <<>>, 0, <<>>)     \* slog.Attr{}

IntAttr(key, n)    == Attr(key, "Int64", <<>>, n, <<>>)
StringAttr(key, s) == Attr(key, "String", s, 0, <<>>)
BoolAttr(key, b)   == Attr(key, "Bool", <<>>, IF b THEN 1 ELSE 0, <<>>)
TimeAttr(key)      == Attr(key, "Time", <<>>, 1, <<>>)
GroupAttr(key, g)  == Attr(key, "Group", <<>>, 0, g)

\* slog.Value.String() of a value that is no String, Time or Group
ValueString(a) ==
    CASE a.Kind = "Int64" -> Itoa(a.N)
      [] a.Kind = "Bool"  -> IF a.N = 1 THEN <<"t", "r", "u", "e">>
                                        ELSE <<"f", "a", "l", "s", "e">>
      [] OTHER            -> <<"<", "n", "i", "l", ">">>


----------------------------------------------------------------------------
(* Rendering.  Every operator takes the Options o of the handler it runs   *)
(* on and the buffer buf it appends to, and returns the new buffer.        *)

NumAttrs(r) == Len(r.Attrs)

setColorLevel(level) ==
    CASE level = LevelDebug -> colorize(lightMagenta, <<"D", "E", "B", "U", "G">>)
      [] level = LevelInfo  -> colorize(lightCyan, <<"I", "N", "F", "O">>)
      [] level = LevelWarn  -> colorize(lightYellow, <<"W", "A", "R", "N">>)
      [] level = LevelError -> colorize(lightRed, <<"E", "R", "R", "O", "R">>)
      [] OTHER              -> LevelString(level)

\* "source: <file>:<line>" of the one call site of the model, t.go line 7
SourceText == <<"s", "o", "u", "r", "c", "e", ":", " ", "t", ".", "g", "o", ":">> \o Itoa(7)

appendHeader(o, buf, r) ==
    LET timeStr == IF o.Colorful THEN colorize(lightGray, FormatTime(r.Time))
                                 ELSE FormatTime(r.Time)
        b1 == IF r.Time # 0 THEN buf \o timeStr \o <<" ">> ELSE buf
        b2 == b1 \o PadRight(setColorLevel(r.Level))
        b3 == b2 \o <<" ">> \o colorize(white, r.Message)
        source == IF o.Colorful THEN colorize(darkGray, SourceText) ELSE SourceText
    IN  IF o.AddSource /\ r.PC # 0 THEN b3 \o <<" ">> \o source ELSE b3

RECURSIVE appendAttr(_, _, _, _, _)
RECURSIVE appendAttrList(_, _, _, _, _)

\* the loops "for _, a := range attrs { buf = h.appendAttr(buf, a, multiline, level) }"
appendAttrList(o, buf, attrs, multiline, level) ==
    IF attrs = <<>> THEN buf
    ELSE appendAttrList(o, appendAttr(o, buf, Head(attrs), multiline, level),
                        Tail(attrs), multiline, level)

appendAttr(o, buf, a, multiline, level) ==
    LET indent   == Repeat(<<" ">>, 2 * level)
        keyColor == IF o.Colorful THEN lightMagenta ELSE 0
        valColor == IF o.Colorful THEN lightBlue ELSE 0
        key      == colorize(keyColor, a.Key)
        line(val) == IF multiline
                     THEN buf \o indent \o key \o <<":", " ">> \o colorize(valColor, val) \o <<"\n">>
                     ELSE buf \o <<" ">> \o key \o <<"=">> \o colorize(valColor, val)
    IN  IF a = ZeroAttr THEN buf
        ELSE CASE a.Kind = "String" ->
                    IF multiline THEN line(a.S) ELSE line(Quote(a.S))
               [] a.Kind = "Time" ->
                    IF multiline THEN line(FormatTime(a.N)) ELSE line(Quote(FormatTime(a.N)))
               [] a.Kind \in {"Int64", "Bool"} -> line(ValueString(a))
               [] a.Kind = "Group" ->
                    IF Len(a.G) = 0 THEN buf
                    ELSE IF multiline
                         THEN appendAttrList(o, buf \o indent \o key \o <<":", "\n">>,
                                             a.G, multiline, level + 1)
                         ELSE appendAttrList(o, buf \o <<" ">> \o key \o <<":">>,
                                             a.G, multiline, 2)
               [] OTHER -> line(ValueString(a))

\* A groupOrAttrs: a group name (attrs empty) or a batch of attributes (group empty)
GroupGoa(name)  == [group |-> name, attrs |-> <<>>]
AttrsGoa(attrs) == [group |-> <<>>, attrs |-> attrs]

RECURSIVE appendMultilineGroupOrAttrs(_, _, _, _)
appendMultilineGroupOrAttrs(o, chain, buf, level) ==
    IF chain = <<>> THEN buf
    ELSE LET goa == Head(chain)
         IN  IF goa.group # <<>>
             THEN appendMultilineGroupOrAttrs(o, Tail(chain),
                      buf \o Repeat(<<" ", " ">>, level) \o colorize(magenta, goa.group) \o <<":">>,
                      level + 1)
             ELSE appendMultilineGroupOrAttrs(o, Tail(chain),
                      appendAttrList(o, IF Len(goa.attrs) > 0 THEN buf \o <<"\n">> ELSE buf,
                                     goa.attrs, TRUE, level),
                      level)

\* an appendMultilineAttrs that renders the record's attributes at level 0
appendMultilineAttrs_Level0(o, buf, r) ==
    IF NumAttrs(r) = 0 THEN buf
    ELSE appendAttrList(o, buf \o <<"\n">>, r.Attrs, TRUE, 0)

appendMultilineAttrs(o, buf, r) ==
    IF NumAttrs(r) = 0 THEN buf
    ELSE appendAttrList(o, buf \o <<"\n">>, r.Attrs, TRUE, 1)

RECURSIVE appendInLineChain(_, _, _)
appendInLineChain(o, chain, buf) ==
    IF chain = <<>> THEN buf
    ELSE LET goa == Head(chain)
             lbl == IF o.Colorful THEN colorize(cyan, goa.group) ELSE goa.group
             b1  == IF goa.group # <<>> THEN buf \o <<" ">> \o lbl \o <<":">> ELSE buf
         IN  appendInLineChain(o, Tail(chain), appendAttrList(o, b1, goa.attrs, FALSE, 0))

appendInLineAttrs(o, chain, buf, r) ==
    appendAttrList(o, appendInLineChain(o, chain, buf), r.Attrs, FALSE, 0)

\* a removeEmptyGroup with an if for its for: at most one group marker is removed
removeEmptyGroup_Once(chain, r) ==
    IF NumAttrs(r) = 0 /\ Len(chain) > 0 /\ chain[Len(chain)].group # <<>>
    THEN SubSeq(chain, 1, Len(chain) - 1)
    ELSE chain

\* removeEmptyGroup: the value of h.goas when it returns, from its value on entry
RECURSIVE removeEmptyGroup(_, _)
removeEmptyGroup(chain, r) ==
    IF NumAttrs(r) = 0 /\ Len(chain) > 0 /\ chain[Len(chain)].group # <<>>
    THEN removeEmptyGroup(SubSeq(chain, 1, Len(chain) - 1), r)
    ELSE chain

\* Handle, from "if h.opts.Multiline" to "buf = append(buf, '\n')": chain is h.goas as
\* the render reads it
renderBody(o, chain, buf, r) ==
    (IF o.Multiline
     THEN appendMultilineAttrs(o, appendMultilineGroupOrAttrs(o, chain, buf, 1), r)
     ELSE appendInLineAttrs(o, chain, buf, r)) \o <<"\n">>

\* a Handle that consults the threshold itself and writes nothing for a record below it
HandleBuf_Gated(o, chain, r) ==
    IF r.Level >= o.Level
    THEN renderBody(o, removeEmptyGroup(chain, r), appendHeader(o, <<>>, r), r)
    ELSE <<>>

\* the buffer Handle passes to h.out.Write when it runs alone on a handler whose chain
\* is chain
HandleBuf(o, chain, r) ==
    renderBody(o, removeEmptyGroup(chain, r), appendHeader(o, <<>>, r), r)


----------------------------------------------------------------------------
(* The inputs of the model.                                                *)

DefaultOptions == [Level |-> LevelInfo, AddSource |-> FALSE, Colorful |-> TRUE, Multiline |-> FALSE]

\* the Options a caller passes to New: the defaults, those of example/main.go, and the
\* two plain ones, inline and multiline
OptionSet ==
    { DefaultOptions,
      [Level |-> LevelDebug, AddSource |-> TRUE, Colorful |-> TRUE, Multiline |-> TRUE],
      [Level |-> LevelWarn, AddSource |-> TRUE, Colorful |-> FALSE, Multiline |-> FALSE],
      [Level |-> LevelInfo, AddSource |-> FALSE, Colorful |-> FALSE, Multiline |-> TRUE] }

\* group names and attribute batches bound with WithGroup and WithAttrs; the empty
\* name and the empty batch are the no-op arguments
GroupNames == {<<>>, <<"p">>}

Batches == {<<>>, <<IntAttr(<<"v">>, 3)>>, <<ZeroAttr>>}

Record(level, time, pcv, attrs) ==
    [Level |-> level, Time |-> time, PC |-> pcv, Message |-> <<"o", "k">>, Attrs |-> attrs]

\* the records emitted: slog.Record.AddAttrs drops a Group without children, so no
\* record carries one at its top level
Records ==
    { Record(LevelInfo, 1, 1, <<>>),
      Record(LevelWarn, 1, 0, <<IntAttr(<<"x">>, 1)>>),
      Record(LevelDebug, 0, 1, <<ZeroAttr>>),
      Record(2, 0, 0, <<GroupAttr(<<"d">>, <<GroupAttr(<<"n">>, <<>>)>>)>>) }

\* the results of h.out.Write: nil or an error of the sink
NoErr == "nil"
Errors == {"ErrShortWrite"}

NoGoa  == [group |-> <<>>, attrs |-> <<>>]
NoRec  == Record(LevelInfo, 0, 0, <<>>)
NoLast == [op |-> "New", h |-> 1, ret |-> 1, arg |-> NoGoa, before |-> <<>>,
           rec |-> NoRec, buf |-> <<>>, werr |-> NoErr, err |-> NoErr]
NoMemo == [h |-> 0, rec |-> NoRec, buf |-> <<>>]
NoCall == [h |-> 0, rec |-> NoRec, start |-> <<>>, buf |-> <<>>, written |-> <<>>,
           writes |-> 0, err |-> NoErr, ret |-> NoErr]

Handlers == 1..Len(goas)

----------------------------------------------------------------------------
(* The handler's operations.                                               *)

\* Enabled with > for >=
Enabled_Strict(level) == level > opts.Level

Enabled(level) == level >= opts.Level

\* withGroupOrAttrs without its copy(h2.goas, h.goas): the new slice holds zero values
\* before the new element
withGroupOrAttrs_NoCopy(chain, goa) ==
    [i \in 1..(Len(chain) + 1) |-> IF i = Len(chain) + 1 THEN goa ELSE NoGoa]

\* withGroupOrAttrs: the goas of the copy h2
withGroupOrAttrs(chain, goa) ==
    [i \in 1..(Len(chain) + 1) |-> IF i = Len(chain) + 1 THEN goa ELSE chain[i]]

\* a derivation that gives the copy a mutex of its own
copyMu_Fresh(h) == Len(goas) + 1

\* "h2 := *h": the copy points to the mutex the original points to
copyMu(h) == mu[h]

\* New: one root handler with its own mutex and an empty chain
Init ==
    /\ opts \in OptionSet
    /\ goas = <<(<<>>)>>
    /\ mu = <<1>>
    /\ origin = <<[parent |-> 0, elem |-> NoGoa]>>
    /\ locked = [m \in 1..(MaxHandlers + 1) |-> 0]
    /\ inWrite = {}
    /\ pc = [t \in Threads |-> "idle"]
    /\ tv = [t \in Threads |-> NoCall]
    /\ calls = 0
    /\ last = NoLast
    /\ memo = NoMemo

\* the receiver itself is returned: no handler object is made
Same(op, h, goa) ==
    /\ last' = [NoLast EXCEPT !.op = op, !.h = h, !.ret = h, !.arg = goa, !.before = goas[h]]
    /\ UNCHANGED <<goas, mu, origin>>

\* no goroutine has panicked: a panic ends the program
Running == \A t \in Threads : pc[t] # "panic"

\* a new handler object is made, while fewer than bound exist
Derive(op, h, goa, bound) ==
    /\ Len(goas) < bound
    /\ goas' = Append(goas, withGroupOrAttrs(goas[h], goa))
    /\ mu' = Append(mu, copyMu(h))
    /\ origin' = Append(origin, [parent |-> h, elem |-> goa])
    /\ last' = [NoLast EXCEPT !.op = op, !.h = h, !.ret = Len(goas) + 1, !.arg = goa,
                              !.before = goas[h]]

WithAttrs(h, attrs, bound) ==
    /\ Running
    /\ IF Len(attrs) = 0 THEN Same("WithAttrs", h, AttrsGoa(attrs))
                         ELSE Derive("WithAttrs", h, AttrsGoa(attrs), bound)
    /\ UNCHANGED <<opts, locked, inWrite, pc, tv, calls, memo>>

WithGroup(h, name, bound) ==
    /\ Running
    /\ IF name = <<>> THEN Same("WithGroup", h, GroupGoa(name))
                      ELSE Derive("WithGroup", h, GroupGoa(name), bound)
    /\ UNCHANGED <<opts, locked, inWrite, pc, tv, calls, memo>>

\* "return err" of Handle
handleReturn(err) == err

\* sync.Mutex: Lock returns once the mutex is free
mutexFree(m) == locked[m] = 0

\* an Unlock that is not deferred and is skipped by an early return on a Write error
deferredUnlock_OnSuccessOnly(lk, m, err) == IF err = NoErr THEN [lk EXCEPT ![m] = 0] ELSE lk

\* "defer h.mu.Unlock()": when Handle returns, whatever Write returned, the mutex m it
\* locked is free again; lk is the state of the mutexes at that point
deferredUnlock(lk, m, err) == [lk EXCEPT ![m] = 0]

\* Handle run from its first to its last statement with no other call in between; the
\* mutex is free before and after
Handle(h, r, err, keep) ==
    LET buf == HandleBuf(opts, goas[h], r)
    IN  /\ \A t \in Threads : pc[t] = "idle"
        /\ mutexFree(mu[h])
        /\ locked' = deferredUnlock([locked EXCEPT ![mu[h]] = 1], mu[h], err)
        /\ goas' = [goas EXCEPT ![h] = removeEmptyGroup(goas[h], r)]
        /\ last' = [NoLast EXCEPT !.op = "Handle", !.h = h, !.ret = h, !.before = goas[h],
                                  !.rec = r, !.buf = buf, !.werr = err,
                                  !.err = handleReturn(err)]
        /\ memo' = IF keep THEN [h |-> h, rec |-> r, buf |-> buf] ELSE memo
        /\ UNCHANGED <<opts, mu, origin, inWrite, pc, tv, calls>>

Next ==
    \/ \E h \in Handlers, attrs \in Batches : WithAttrs(h, attrs, MaxHandlers)
    \/ \E h \in Handlers, name \in GroupNames : WithGroup(h, name, MaxHandlers)
    \/ \E h \in Handlers, r \in Records, err \in Errors \cup {NoErr} : Handle(h, r, err, FALSE)

\* one handler at a time is called, by one goroutine
Spec == Init /\ [][Next]_vars

\* as Next, and one Handle call of the behaviour is remembered in memo
NextMemo ==
    \/ \E h \in Handlers, attrs \in Batches : WithAttrs(h, attrs, MaxHandlers)
    \/ \E h \in Handlers, name \in GroupNames : WithGroup(h, name, MaxHandlers)
    \/ \E h \in Handlers, r \in Records, err \in Errors \cup {NoErr} :
            \E keep \in (IF memo = NoMemo THEN BOOLEAN ELSE {FALSE}) : Handle(h, r, err, keep)

SpecMemo == Init /\ [][NextMemo]_vars


----------------------------------------------------------------------------
(* Handle called by several goroutines: the call of goroutine t, statement *)
(* by statement.  Each step reads and writes the fields of the handler as  *)
(* one access.                                                             *)

\* the test of the if and of the for of removeEmptyGroup, on h.goas as it is now:
\* where goroutine t goes next
AfterTest(h, r) ==
    IF NumAttrs(r) = 0 /\ Len(goas[h]) > 0 /\ goas[h][Len(goas[h])].group # <<>>
    THEN "trim" ELSE "render"

\* Handle is called: "buf = h.appendHeader(buf, r)", and the first test of
\* removeEmptyGroup
HandleBegin(t, h, r) ==
    /\ Running
    /\ pc[t] \in {"idle", "done"}
    /\ calls < MaxCalls
    /\ calls' = calls + 1
    /\ tv' = [tv EXCEPT ![t] = [NoCall EXCEPT !.h = h, !.rec = r, !.start = goas[h],
                                              !.buf = appendHeader(opts, <<>>, r)]]
    /\ pc' = [pc EXCEPT ![t] = AfterTest(h, r)]
    /\ UNCHANGED <<opts, goas, mu, origin, locked, inWrite, last, memo>>

\* removeEmptyGroup: "h.goas = h.goas[:len(h.goas)-1]"; slicing an empty slice to
\* [:-1] panics
RemoveTrim(t) ==
    LET h == tv[t].h
    IN  /\ Running
        /\ pc[t] = "trim"
        /\ IF Len(goas[h]) = 0
           THEN /\ pc' = [pc EXCEPT ![t] = "panic"]
                /\ UNCHANGED goas
           ELSE /\ pc' = [pc EXCEPT ![t] = "remove"]
                /\ goas' = [goas EXCEPT ![h] = SubSeq(goas[h], 1, Len(goas[h]) - 1)]
        /\ UNCHANGED <<opts, mu, origin, locked, inWrite, tv, calls, last, memo>>

\* removeEmptyGroup: the test of the for, after a trim
RemoveTest(t) ==
    /\ Running
    /\ pc[t] = "remove"
    /\ pc' = [pc EXCEPT ![t] = AfterTest(tv[t].h, tv[t].rec)]
    /\ UNCHANGED <<opts, goas, mu, origin, locked, inWrite, tv, calls, last, memo>>

\* the attributes are rendered from h.goas and the record, and the newline appended
Render(t) ==
    /\ Running
    /\ pc[t] = "render"
    /\ tv' = [tv EXCEPT ![t].buf = renderBody(opts, goas[tv[t].h], tv[t].buf, tv[t].rec)]
    /\ pc' = [pc EXCEPT ![t] = "lock"]
    /\ UNCHANGED <<opts, goas, mu, origin, locked, inWrite, calls, last, memo>>

\* "h.mu.Lock()", and "h.out.Write(buf)" is entered with the whole buffer
LockAndWrite(t) ==
    /\ Running
    /\ pc[t] = "lock"
    /\ mutexFree(mu[tv[t].h])
    /\ locked' = [locked EXCEPT ![mu[tv[t].h]] = t]
    /\ inWrite' = inWrite \cup {t}
    /\ tv' = [tv EXCEPT ![t].written = tv[t].buf, ![t].writes = tv[t].writes + 1]
    /\ pc' = [pc EXCEPT ![t] = "writing"]
    /\ UNCHANGED <<opts, goas, mu, origin, calls, last, memo>>

\* Write returns nil or an error; "return err", and the deferred Unlock; of the call's
\* locals only what it was called on and what it returned is kept
WriteReturn(t, err) ==
    /\ Running
    /\ pc[t] = "writing"
    /\ inWrite' = inWrite \ {t}
    /\ locked' = deferredUnlock(locked, mu[tv[t].h], err)
    /\ tv' = [tv EXCEPT ![t] = [NoCall EXCEPT !.h = tv[t].h, !.writes = tv[t].writes,
                                              !.err = err, !.ret = handleReturn(err)]]
    /\ pc' = [pc EXCEPT ![t] = "done"]
    /\ UNCHANGED <<opts, goas, mu, origin, calls, last, memo>>

\* the records the goroutines emit, one without attributes and one with an attribute,
\* and the batches bound meanwhile
ConcRecords == {r \in Records : r.Time = 1}
ConcBatches == {b \in Batches : b # <<>> /\ b[1] # ZeroAttr}

NextConc ==
    \/ \E h \in Handlers, attrs \in ConcBatches : WithAttrs(h, attrs, ConcHandlers)
    \/ \E h \in Handlers, name \in GroupNames \ {<<>>} : WithGroup(h, name, ConcHandlers)
    \/ \E t \in Threads, h \in Handlers, r \in ConcRecords : HandleBegin(t, h, r)
    \/ \E t \in Threads : RemoveTrim(t)
    \/ \E t \in Threads : RemoveTest(t)
    \/ \E t \in Threads : Render(t)
    \/ \E t \in Threads : LockAndWrite(t)
    \/ \E t \in Threads, err \in Errors \cup {NoErr} : WriteReturn(t, err)

\* New(out, nil): the root has the default options
InitConc == Init /\ opts = DefaultOptions

SpecConc == InitConc /\ [][NextConc]_vars

----------------------------------------------------------------------------
(* Rendering as a function of the chain, the record and the options: a     *)
(* handler bound by a sequence of derivations from the root, and Handle    *)
(* called on it by one goroutine.                                          *)

MaxChain == 3   \* derivations between the root and the handler that is called

\* the Options of the four modes: colourful or plain, inline or multiline
RenderOptions ==
    [Level : {LevelInfo}, AddSource : {FALSE}, Colorful : BOOLEAN, Multiline : BOOLEAN]

\* what one derivation binds: a group name, or a batch of attributes
RenderGoas ==
    { GroupGoa(<<"p">>),
      GroupGoa(<<"q">>),
      AttrsGoa(<<IntAttr(<<"v">>, 3), StringAttr(<<"u">>, <<"a", "\"">>)>>),
      AttrsGoa(<<ZeroAttr>>) }

RenderChains == UNION {[1..n -> RenderGoas] : n \in 0..MaxChain}

\* the records emitted: the four named levels, with and without a time, attributes
\* of kind Int64 and String, Groups nested twice, and attributes that are elided
RenderRecords ==
    { Record(LevelInfo, 1, 0, <<>>),
      Record(LevelInfo, 1, 0, <<IntAttr(<<"x">>, 1)>>),
      Record(LevelDebug, 1, 0, <<IntAttr(<<"x">>, 1)>>),
      Record(LevelWarn, 0, 0, <<IntAttr(<<"x">>, 1)>>),
      Record(LevelError, 1, 0, <<StringAttr(<<"s">>, <<"a">>), IntAttr(<<"x">>, 1)>>),
      Record(LevelInfo, 1, 0,
             <<GroupAttr(<<"d">>, <<StringAttr(<<"s">>, <<>>),
                                    GroupAttr(<<"e">>, <<IntAttr(<<"y">>, 2),
                                                         StringAttr(<<"s">>, <<"a", "\\">>)>>)>>)>>),
      Record(LevelDebug, 0, 0, <<ZeroAttr>>),
      Record(LevelWarn, 1, 0, <<GroupAttr(<<"d">>, <<GroupAttr(<<"n">>, <<>>)>>)>>) }

\* New, then one derivation per element of a chain, each from the handler made by the
\* one before: handler i + 1 holds the first i elements
InitRender ==
    /\ opts \in RenderOptions
    /\ \E chain \in RenderChains :
          /\ goas = [i \in 1..(Len(chain) + 1) |-> SubSeq(chain, 1, i - 1)]
          /\ mu = [i \in 1..(Len(chain) + 1) |-> 1]
          /\ origin = [i \in 1..(Len(chain) + 1) |->
                          IF i = 1 THEN [parent |-> 0, elem |-> NoGoa]
                                   ELSE [parent |-> i - 1, elem |-> chain[i - 1]]]
    /\ locked = [m \in 1..(MaxHandlers + 1) |-> 0]
    /\ inWrite = {}
    /\ pc = [t \in Threads |-> "idle"]
    /\ tv = [t \in Threads |-> NoCall]
    /\ calls = 0
    /\ last = NoLast
    /\ memo = NoMemo

\* Handle is called on the handler derived last
NextRender == \E r \in RenderRecords : Handle(Len(goas), r, NoErr, FALSE)

SpecRender == InitRender /\ [][NextRender]_vars

----------------------------------------------------------------------------
(* Claims about one handler called by one goroutine at a time.             *)

Chars(buf) == {buf[i] : i \in DOMAIN buf}

\* C1: Handle leaves the chain of its handler as it found it: after Handle returns,
\* h.goas is element for element the chain h held when Handle was called, also for a
\* record without attributes on a chain that ends in group markers.
C1_HandleKeepsChain ==
    last.op = "Handle" => goas[last.h] = last.before

\* C2: the same record emitted again through the same handler writes the same bytes,
\* whatever was emitted in between.
C2_SameRecordSameBytes ==
    (last.op = "Handle" /\ memo # NoMemo /\ last.h = memo.h /\ last.rec = memo.rec)
        => last.buf = memo.buf

\* the handlers h was derived from, h included
RECURSIVE Lineage(_)
Lineage(h) == IF h = 0 THEN {} ELSE {h} \cup Lineage(origin[h].parent)

\* the character that shows the element bound by a derivation in the output: the group
\* name, or the key of the batch's attribute (no other text of the model holds it)
Visible(goa) == goa.group # <<>> \/ (goa.attrs # <<>> /\ goa.attrs[1] # ZeroAttr)
KeyChar(goa) == IF goa.group # <<>> THEN goa.group[1] ELSE goa.attrs[1].Key[1]

\* C3: a derivation never changes what its parent emits and always shows in what the
\* derived handler emits: the output of a handler holds the element of every
\* derivation on its lineage (for a record that has attributes, so that no trailing
\* group marker is due to be trimmed), and holds no element bound on another branch.
C3_DerivationIsolated ==
    last.op = "Handle" =>
        \A b \in Handlers :
            Visible(origin[b].elem) =>
                IF b \in Lineage(last.h)
                THEN NumAttrs(last.rec) > 0 => KeyChar(origin[b].elem) \in Chars(last.buf)
                ELSE (\A a \in Lineage(last.h) :
                          Visible(origin[a].elem) => KeyChar(origin[a].elem) # KeyChar(origin[b].elem))
                     => KeyChar(origin[b].elem) \notin Chars(last.buf)

\* C4: a derivation with a non-empty argument makes a new handler whose chain is the
\* receiver's chain and the one new element after it, and leaves the receiver's chain
\* alone; with the empty batch or the empty name it returns the receiver, so the chain
\* length and the bytes of every record are the same.
C4_DerivedChain ==
    last.op \in {"WithAttrs", "WithGroup"} =>
        IF last.arg = NoGoa
        THEN /\ last.ret = last.h
             /\ Len(goas[last.ret]) = Len(last.before)
             /\ \A r \in Records :
                    HandleBuf(opts, goas[last.ret], r) = HandleBuf(opts, last.before, r)
        ELSE /\ last.ret # last.h
             /\ Len(goas[last.ret]) = Len(last.before) + 1
             /\ SubSeq(goas[last.ret], 1, Len(last.before)) = last.before
             /\ goas[last.ret][Len(last.before) + 1] = last.arg
             /\ goas[last.h] = last.before

C4_Witness ==
    /\ last.op = "WithAttrs"
    /\ last.arg # NoGoa
    /\ Len(last.before) > 0
    /\ goas[last.ret] = last.before \o <<last.arg>>

EnabledIsThreshold == \A level \in Levels : Enabled(level) <=> level >= opts.Level

\* C5 as stated: Enabled is the comparison with the threshold, and Handle of a record
\* below the threshold writes no byte and returns no error.
C5_BelowThresholdSilent ==
    /\ EnabledIsThreshold
    /\ (last.op = "Handle" /\ last.rec.Level < opts.Level)
           => (last.buf = <<>> /\ last.err = NoErr)

\* C5 amended: Enabled is the comparison with the threshold; Handle itself does not
\* look at the threshold: a record below it is rendered and written like any other (a
\* header, the attributes, a newline, in one buffer), and Handle returns what the
\* write returned, no error when it succeeded.
C5_HandleDoesNotFilter ==
    /\ EnabledIsThreshold
    /\ (last.op = "Handle" /\ last.rec.Level < opts.Level)
           => /\ ~Enabled(last.rec.Level)
              /\ last.buf = renderBody(opts, goas[last.h], appendHeader(opts, <<>>, last.rec), last.rec)
              /\ Len(last.buf) > Len(last.rec.Message)
              /\ last.buf[Len(last.buf)] = "\n"
              /\ last.err = last.werr

C5_Witness ==
    /\ last.op = "Handle"
    /\ last.rec.Level < opts.Level
    /\ ~Enabled(last.rec.Level)
    /\ Len(last.buf) > 0
    /\ last.err = NoErr

\* an attribute that is elided: the zero Attr, or a Group without children
Elided(a) == a = ZeroAttr \/ (a.Kind = "Group" /\ Len(a.G) = 0)

RemoveAt(seq, i) == SubSeq(seq, 1, i - 1) \o SubSeq(seq, i + 1, Len(seq))

\* the attribute lists got from attrs by removing one elided attribute, at the top or
\* inside a Group of the list
Without(attrs) ==
    {RemoveAt(attrs, i) : i \in {j \in DOMAIN attrs : Elided(attrs[j])}}
    \cup UNION {{[attrs EXCEPT ![i].G = RemoveAt(attrs[i].G, k)] :
                    k \in {j \in DOMAIN attrs[i].G : Elided(attrs[i].G[j])}} :
                i \in {j \in DOMAIN attrs : attrs[j].Kind = "Group"}}

\* the chains got from chain by removing one elided attribute of a bound batch (and the
\* batch with it, when it was the only attribute: no batch is bound empty)
ChainsWithout(chain) ==
    UNION {{IF Len(as) = 0 THEN RemoveAt(chain, i) ELSE [chain EXCEPT ![i].attrs = as] :
               as \in Without(chain[i].attrs)} : i \in DOMAIN chain}

\* C6: an elided attribute adds no byte: the bytes written for a record and a chain
\* are the bytes written for the same record and chain with one zero attribute or
\* empty Group removed, wherever it is.
C6_ElisionAddsNothing ==
    last.op = "Handle" =>
        /\ \A as \in Without(last.rec.Attrs) :
               last.buf = HandleBuf(opts, last.before, [last.rec EXCEPT !.Attrs = as])
        /\ \A c \in ChainsWithout(last.before) :
               last.buf = HandleBuf(opts, c, last.rec)

\* position i of s lies in an escape sequence: from an ESC up to the next m
InEscape(s, i) == \E j \in 1..i : s[j] = ESC /\ \A k \in (j + 1)..(i - 1) : s[k] # "m"

\* text with every escape sequence (ESC [ digits m) taken out
Strip(s) ==
    LET keep == {i \in DOMAIN s : ~InEscape(s, i)}
    IN  [n \in 1..Cardinality(keep) |->
            s[CHOOSE i \in keep : Cardinality({j \in keep : j <= i}) = n]]

\* C7: with Colorful off the bytes written hold no escape sequence, and are the bytes
\* written with Colorful on once the escape sequences are taken out of those.
C7_PlainIsStrippedColour ==
    (last.op = "Handle" /\ ~opts.Colorful) =>
        /\ ESC \notin Chars(last.buf)
        /\ last.buf = Strip(HandleBuf([opts EXCEPT !.Colorful = TRUE], last.before, last.rec))


----------------------------------------------------------------------------
(* Claims about Handle called by several goroutines.                       *)

\* goroutine t is in Handle before its render has read h.goas
ReadsChain(t) == pc[t] \in {"remove", "trim", "render"}

\* goroutine t has passed its buffer to Write, which has not returned yet
HasWritten(t) == pc[t] = "writing"

\* C8: concurrent Handle calls share no mutable state outside the sink lock: no call
\* is about to write h.goas while another running call has still to read the h.goas
\* of the same handler, and the bytes a call writes are the bytes it would write if
\* it ran alone on the chain it found.
C8_NoSharedMutableState ==
    /\ \A t1 \in Threads, t2 \in Threads :
           ~(t1 # t2 /\ pc[t1] = "trim" /\ ReadsChain(t2) /\ tv[t1].h = tv[t2].h)
    /\ \A t \in Threads :
           HasWritten(t) => tv[t].written = HandleBuf(opts, tv[t].start, tv[t].rec)

\* C9: the root and every handler derived from it point to one mutex; at most one
\* goroutine is inside the sink's Write at any time; and every call passes the sink
\* its whole rendered buffer (header to final newline) in exactly one Write call.
C9_OneLockWholeWrites ==
    /\ \A h \in Handlers : mu[h] = mu[1]
    /\ Cardinality(inWrite) <= 1
    /\ \A t \in inWrite : locked[mu[tv[t].h]] = t
    /\ \A t \in Threads :
           /\ HasWritten(t) =>
                 /\ tv[t].writes = 1
                 /\ tv[t].written = tv[t].buf
                 /\ tv[t].written[Len(tv[t].written)] = "\n"
                 /\ SubSeq(tv[t].written, 1, Len(appendHeader(opts, <<>>, tv[t].rec)))
                        = appendHeader(opts, <<>>, tv[t].rec)
           /\ pc[t] \in {"remove", "trim", "render", "lock"} => tv[t].writes = 0
           /\ pc[t] = "done" => tv[t].writes = 1

C9_Witness ==
    \E t1 \in Threads, t2 \in Threads :
        /\ pc[t1] = "writing"
        /\ pc[t2] = "lock"
        /\ tv[t1].h # tv[t2].h
        /\ mu[tv[t1].h] = mu[tv[t2].h]

\* C10: Handle returns what Write returned, the error unchanged or nil, after exactly
\* one Write call; when it has returned it no longer holds the mutex, also after a
\* failed Write, so the mutex is held only by a goroutine between Lock and return and
\* a later Handle call can lock it.
C10_ErrorReturnedLockReleased ==
    /\ \A t \in Threads :
           pc[t] = "done" =>
               /\ tv[t].ret = tv[t].err
               /\ tv[t].writes = 1
               /\ \A m \in DOMAIN locked : locked[m] # t
    /\ \A m \in DOMAIN locked :
           locked[m] # 0 => pc[locked[m]] = "writing"

C10_Witness ==
    \E t1 \in Threads, t2 \in Threads :
        /\ pc[t1] = "done"
        /\ tv[t1].err \in Errors
        /\ tv[t1].ret = tv[t1].err
        /\ pc[t2] = "writing"
        /\ locked[mu[tv[t1].h]] = t2

----------------------------------------------------------------------------
(* Claims about the text Handle renders, as a function of the chain, the   *)
(* record and the options.                                                 *)

\* the text pat stands in buf from position i on
At(buf, i, pat) == i + Len(pat) - 1 <= Len(buf) /\ SubSeq(buf, i, i + Len(pat) - 1) = pat

Occurs(pat, buf) == \E i \in 1..Len(buf) : At(buf, i, pat)

\* the header without colours: the time and a space when the time is set, the level
\* label on 7 columns, a space, the message
PlainHeader(r) ==
    (IF r.Time # 0 THEN FormatTime(r.Time) \o <<" ">> ELSE <<>>)
        \o PadRight(LevelString(r.Level)) \o <<" ">> \o r.Message

\* the text of a value that is no Group, quoted or not
PlainValue(a, quoted) ==
    CASE a.Kind = "String" -> IF quoted THEN Quote(a.S) ELSE a.S
      [] a.Kind = "Time"   -> IF quoted THEN Quote(FormatTime(a.N)) ELSE FormatTime(a.N)
      [] OTHER             -> ValueString(a)

\* one line per rendered attribute, indent + key + ": " + value + newline, a Group
\* being its label and its children one level deeper
RECURSIVE PlainLines(_, _)
PlainLines(attrs, depth) ==
    IF attrs = <<>> THEN <<>>
    ELSE LET a == Head(attrs)
             indent == Repeat(<<" ">>, 2 * depth)
         IN  (IF Elided(a) THEN <<>>
              ELSE IF a.Kind = "Group"
                   THEN indent \o a.Key \o <<":", "\n">> \o PlainLines(a.G, depth + 1)
                   ELSE indent \o a.Key \o <<":", " ">> \o PlainValue(a, FALSE) \o <<"\n">>)
             \o PlainLines(Tail(attrs), depth)

\* C11: in multiline mode without colours, on a handler with an empty chain, the bytes
\* written for a record that has attributes are the header line, one newline, and one
\* line per rendered attribute (indent, key, ": ", value, newline); the last byte is
\* the newline of the last attribute line and no blank line follows it.
C11_MultilinePlainLayout ==
    (/\ last.op = "Handle"
     /\ opts.Multiline /\ ~opts.Colorful
     /\ last.before = <<>>
     /\ \E i \in DOMAIN last.rec.Attrs : ~Elided(last.rec.Attrs[i]))
        => /\ last.buf = PlainHeader(last.rec) \o <<"\n">> \o PlainLines(last.rec.Attrs, 1)
           /\ ~(last.buf[Len(last.buf)] = "\n" /\ last.buf[Len(last.buf) - 1] = "\n")

\* for each rendered attribute one space and key=value, a Group being its label and
\* its children after it
RECURSIVE PlainInline(_)
PlainInline(attrs) ==
    IF attrs = <<>> THEN <<>>
    ELSE LET a == Head(attrs)
         IN  (IF Elided(a) THEN <<>>
              ELSE IF a.Kind = "Group"
                   THEN <<" ">> \o a.Key \o <<":">> \o PlainInline(a.G)
                   ELSE <<" ">> \o a.Key \o <<"=">> \o PlainValue(a, TRUE))
             \o PlainInline(Tail(attrs))

\* the column of the first byte of the message in a rendered line, 0 when the message
\* is not in it
MessageColumn(buf, r) ==
    LET at == {i \in 1..Len(buf) : At(buf, i, r.Message)}
    IN  IF at = {} THEN 0 ELSE CHOOSE i \in at : \A j \in at : i <= j

\* C12: in inline mode without colours, on a handler with an empty chain, the bytes
\* written are the time and a space (when the time is set), the level label padded to
\* 7 columns, a space, the message, a space and key=value per rendered attribute, and
\* one newline; so the message starts 8 columns after the start of the level label,
\* whatever the level.
C12_InlinePlainLayout ==
    (/\ last.op = "Handle"
     /\ ~opts.Multiline /\ ~opts.Colorful
     /\ last.before = <<>>)
        => /\ last.buf = PlainHeader(last.rec) \o PlainInline(last.rec.Attrs) \o <<"\n">>
           /\ MessageColumn(last.buf, last.rec)
                  = (IF last.rec.Time # 0 THEN Len(FormatTime(last.rec.Time)) + 1 ELSE 0)
                        + PadWidth + 2


\* the String attributes of a list, at any depth
RECURSIVE StringsIn(_)
StringsIn(attrs) ==
    UNION {IF attrs[i].Kind = "String" THEN {attrs[i]}
           ELSE IF attrs[i].Kind = "Group" THEN StringsIn(attrs[i].G)
           ELSE {} : i \in DOMAIN attrs}

\* the String attributes Handle renders: those of the record and of the bound batches
StringsRendered ==
    StringsIn(last.rec.Attrs) \cup UNION {StringsIn(last.before[i].attrs) : i \in DOMAIN last.before}

\* a quoted text with the backslash of each escaped character taken out
RECURSIVE Unescape(_)
Unescape(t) ==
    IF t = <<>> THEN <<>>
    ELSE IF Head(t) = "\\" /\ Len(t) > 1 THEN <<t[2]>> \o Unescape(Tail(Tail(t)))
    ELSE <<Head(t)>> \o Unescape(Tail(t))

KeyColor == IF opts.Colorful THEN lightMagenta ELSE 0
ValColor == IF opts.Colorful THEN lightBlue ELSE 0
KeySep   == IF opts.Multiline THEN <<":", " ">> ELSE <<"=">>

\* the bytes hold key, separator and the value of a in double quotes, " and \ escaped
ShownQuoted(buf, a) ==
    LET pre  == colorize(KeyColor, a.Key) \o KeySep \o <<ESC, "[">> \o Itoa(ValColor) \o <<"m", "\"">>
        post == <<"\"">> \o reset
    IN  \E i \in 1..Len(buf), n \in 0..(2 * Len(a.S)) :
            /\ At(buf, i, pre)
            /\ At(buf, i + Len(pre) + n, post)
            /\ Unescape(SubSeq(buf, i + Len(pre), i + Len(pre) + n - 1)) = a.S

\* the bytes hold key, separator and the value of a as it is
ShownRaw(buf, a) ==
    Occurs(colorize(KeyColor, a.Key) \o KeySep \o colorize(ValColor, a.S), buf)

\* C13 as stated: every String attribute Handle renders, of the record or bound, at
\* any depth, is written with its value in double quotes, inline and multiline.
C13_StringQuotedBothModes ==
    last.op = "Handle" => \A a \in StringsRendered : ShownQuoted(last.buf, a)

\* C13 amended: a String attribute is written with its value in double quotes (Go's
\* %q) in inline mode, and with its value as it is, without quotes, in multiline
\* mode, at any depth.
C13_StringQuotedInlineOnly ==
    last.op = "Handle" =>
        \A a \in StringsRendered :
            IF opts.Multiline
            THEN ShownRaw(last.buf, a) /\ ~ShownQuoted(last.buf, a)
            ELSE ShownQuoted(last.buf, a)

C13_Witness ==
    /\ last.op = "Handle"
    /\ opts.Multiline
    /\ \E i \in DOMAIN last.rec.Attrs :
           /\ last.rec.Attrs[i].Kind = "Group"
           /\ \E a \in StringsIn(last.rec.Attrs[i].G) : a.S # <<>> /\ ShownRaw(last.buf, a)
    /\ \E i \in DOMAIN last.before :
           \E a \in StringsIn(last.before[i].attrs) : ShownRaw(last.buf, a)


\* the position of the last attrs batch of a chain, 0 when it holds none
LastBatch(chain) ==
    LET batches == {i \in DOMAIN chain : chain[i].group = <<>>}
    IN  IF batches = {} THEN 0 ELSE CHOOSE i \in batches : \A j \in batches : j <= i

\* a chain without the group markers that stand after its last attrs batch
Trimmed(chain) == SubSeq(chain, 1, LastBatch(chain))

\* C14: the chain Handle renders for a record without attributes is the chain its
\* handler holds at the call with every group marker after the last attrs batch
\* removed, and nothing else removed; for a record with an attribute it is the whole
\* chain the handler holds at the call.
C14_RenderedChain ==
    last.op = "Handle" =>
        LET eff == IF NumAttrs(last.rec) = 0 THEN Trimmed(last.before) ELSE last.before
        IN  /\ goas[last.h] = eff
            /\ last.buf = renderBody(opts, eff, appendHeader(opts, <<>>, last.rec), last.rec)

C14_Witness ==
    /\ last.op = "Handle"
    /\ NumAttrs(last.rec) = 0
    /\ Len(last.before) = 3
    /\ last.before[1].attrs # <<>>
    /\ last.before[2].group # <<>>
    /\ last.before[3].group # <<>>
    /\ goas[last.h] = <<last.before[1]>>
    /\ last.buf = renderBody(opts, <<last.before[1]>>, appendHeader(opts, <<>>, last.rec), last.rec)


\* the attributes of a list that are rendered when the list is rendered at depth d,
\* each with its key, its depth and whether it is a Group: a Group renders its
\* children one level deeper
RECURSIVE KeyDepths(_, _)
KeyDepths(attrs, d) ==
    UNION {IF Elided(attrs[i]) THEN {}
           ELSE IF attrs[i].Kind = "Group"
                THEN {<<attrs[i].Key, d, TRUE>>} \cup KeyDepths(attrs[i].G, d + 1)
                ELSE {<<attrs[i].Key, d, FALSE>>} : i \in DOMAIN attrs}

\* the same for the bound attributes of a chain: each group marker adds one to the
\* depth of the batches after it
RECURSIVE ChainKeyDepths(_, _)
ChainKeyDepths(chain, d) ==
    IF chain = <<>> THEN {}
    ELSE IF Head(chain).group # <<>> THEN ChainKeyDepths(Tail(chain), d + 1)
    ELSE KeyDepths(Head(chain).attrs, d) \cup ChainKeyDepths(Tail(chain), d)

\* every key of a list of attributes, rendered or not
RECURSIVE AllKeys(_)
AllKeys(attrs) ==
    UNION {{attrs[i].Key} \cup (IF attrs[i].Kind = "Group" THEN AllKeys(attrs[i].G) ELSE {})
               : i \in DOMAIN attrs}

\* the positions where a line of buf starts, and the number of spaces a line starts with
LineStarts(buf) == {i \in 1..Len(buf) : i = 1 \/ buf[i - 1] = "\n"}

Spaces(buf, i) ==
    CHOOSE n \in 0..Len(buf) :
        /\ \A j \in 0..(n - 1) : i + j <= Len(buf) /\ buf[i + j] = " "
        /\ (i + n > Len(buf) \/ buf[i + n] # " ")

\* C15: in multiline mode every rendered attribute has a line of its own that starts
\* with 2 x depth spaces and its key, where the depth of a record attribute is 1, the
\* depth of a Group's child is the Group's depth + 1, at any nesting, and the depth of
\* a bound attribute is 1 + the number of group markers bound before its batch; a
\* Group's line is its label alone; and no line shows a key at any other indentation.
C15_IndentTracksDepth ==
    (last.op = "Handle" /\ opts.Multiline) =>
        LET buf  == last.buf
            exp  == ChainKeyDepths(last.before, 1) \cup KeyDepths(last.rec.Attrs, 1)
            keys == AllKeys(last.rec.Attrs)
                        \cup UNION {AllKeys(last.before[i].attrs) : i \in DOMAIN last.before}
        IN  /\ \A kd \in exp :
                   \E i \in LineStarts(buf) :
                       At(buf, i, Repeat(<<" ">>, 2 * kd[2]) \o colorize(KeyColor, kd[1])
                                      \o (IF kd[3] THEN <<":", "\n">> ELSE <<":", " ">>))
            /\ \A i \in LineStarts(buf), k \in keys :
                   At(buf, i + Spaces(buf, i), colorize(KeyColor, k) \o <<":">>)
                       => \E kd \in exp : kd[1] = k /\ Spaces(buf, i) = 2 * kd[2]

C15_Witness ==
    /\ last.op = "Handle"
    /\ opts.Multiline
    /\ \E kd \in KeyDepths(last.rec.Attrs, 1) :
           /\ kd[2] = 3
           /\ Occurs(<<"\n">> \o Repeat(<<" ">>, 6) \o colorize(KeyColor, kd[1]) \o <<":">>, last.buf)
    /\ \E kd \in ChainKeyDepths(last.before, 1) :
           /\ kd[2] = 2
           /\ Occurs(<<"\n">> \o Repeat(<<" ">>, 4) \o colorize(KeyColor, kd[1]) \o <<":">>, last.buf)


\* the label Handle writes for a bound group marker, after a space or an indentation
BoundLabel(name) ==
    <<" ">> \o (IF opts.Multiline THEN colorize(magenta, name)
                ELSE IF opts.Colorful THEN colorize(cyan, name) ELSE name) \o <<":">>

\* how often pat stands in buf
Count(pat, buf) == Cardinality({i \in 1..Len(buf) : At(buf, i, pat)})

\* a list of attributes of which at least one is rendered
SomeRendered(attrs) == \E i \in DOMAIN attrs : ~Elided(attrs[i])

\* the markers of group name in a chain that have a rendered attribute after them,
\* bound in a later batch or carried by the record
UsedMarkers(chain, r, name) ==
    {i \in DOMAIN chain :
        /\ chain[i].group = name
        /\ \/ SomeRendered(r.Attrs)
           \/ \E j \in (i + 1)..Len(chain) : SomeRendered(chain[j].attrs)}

\* C16: a bound group's label is written only when an attribute is rendered after it:
\* the bytes hold the label of a group name no more often than the chain holds markers
\* of that name with a rendered attribute, bound later or of the record, after them;
\* zero attributes and empty Groups do not count as rendered.
C16_NoUnusedGroupLabel ==
    last.op = "Handle" =>
        \A i \in DOMAIN last.before :
            last.before[i].group # <<>> =>
                Count(BoundLabel(last.before[i].group), last.buf)
                    <= Cardinality(UsedMarkers(last.before, last.rec, last.before[i].group))


=============================================================================
